---- MODULE Spec2Model ----
(***************************************************************************)
(* Model of scripts/migrate-sqlite-to-pg.py: the one-shot SQLite ->        *)
(* PostgreSQL migration pipeline (main, migrate_table, reset_sequences,    *)
(* MigrationStats and the convert_* value converters).                     *)
(*                                                                         *)
(* The destination connection follows psycopg2 / PostgreSQL semantics: a   *)
(* connection is not in autocommit mode, the first statement opens a       *)
(* transaction, a statement that fails on the server leaves that           *)
(* transaction aborted, and every statement sent on an aborted transaction *)
(* fails until the connection is rolled back.                              *)
(***************************************************************************)
EXTENDS Integers, Sequences, FiniteSets, TLC

(***************************************************************************)
(* Bounds of the model.                                                    *)
(***************************************************************************)
\* largest number of rows a source table holds
MaxRows == 2
\* number of times the script is executed against the same databases
MaxRuns == 2

(***************************************************************************)
(* Python values.  A value carries its Python type, a textual part and a   *)
(* numeric part, so that values of different types are comparable.         *)
(***************************************************************************)
None == [type |-> "NoneType", s |-> "", n |-> 0]

PyInt(k) == [type |-> "int", s |-> "", n |-> k]

PyStr(x) == [type |-> "str", s |-> x, n |-> 0]

PyBool(b) == [type |-> "bool", s |-> "", n |-> IF b THEN 1 ELSE 0]

PyBytes(x) == [type |-> "bytes", s |-> x, n |-> 0]

\* a float, identified by its repr
PyFloat(x) == [type |-> "float", s |-> x, n |-> 0]

\* a parsed JSON object, identified by its canonical content
PyDict(x) == [type |-> "dict", s |-> x, n |-> 0]

\* the outcome of an expression that raised the exception named x
Raise(x) == [type |-> "raise", s |-> x, n |-> 0]

IsRaise(v) == v.type = "raise"

\* Python truthiness of a value: bool(value)
Truthy(v) ==
    CASE v.type = "NoneType" -> FALSE
      [] v.type = "int" -> v.n # 0
      [] v.type = "bool" -> v.n # 0
      [] v.type = "str" -> v.s # ""
      [] v.type = "bytes" -> v.s # ""
      [] v.type = "float" -> v.s \notin {"0.0", "-0.0"}
      [] OTHER -> TRUE

(***************************************************************************)
(* Static configuration (a part of the tables of the script, in the order  *)
(* the script lists them).                                                 *)
(***************************************************************************)
MIGRATION_ORDER == <<"users", "conversation_messages", "audit_logs">>

TableNames == {MIGRATION_ORDER[i] : i \in 1..Len(MIGRATION_ORDER)}

BOOLEAN_COLUMNS == [t \in TableNames |->
    IF t = "users" THEN {"is_active"} ELSE {}]

JSON_COLUMNS == [t \in TableNames |->
    IF t = "audit_logs" THEN {"details"} ELSE {}]

DATETIME_COLUMNS == [t \in TableNames |->
    CASE t = "users" -> {"created_at", "updated_at", "last_login"}
      [] t = "conversation_messages" -> {"created_at"}
      [] t = "audit_logs" -> {"timestamp"}]

\* the tables with a SERIAL key, in the iteration order of the dictionary
SERIAL_TABLES == <<"conversation_messages", "audit_logs">>

SERIAL_COLUMNS == [t \in {SERIAL_TABLES[i] : i \in 1..Len(SERIAL_TABLES)} |-> "id"]

(***************************************************************************)
(* json.loads / json.dumps on the texts and data the model uses.           *)
(***************************************************************************)
json_loads(text) ==
    CASE text = "{\"a\":1}" -> PyDict("a=1")
      [] text = "{\"a\": 1}" -> PyDict("a=1")
      [] text = "null" -> None
      [] text = "true" -> PyBool(TRUE)
      [] text = "1" -> PyInt(1)
      [] text = "\"x\"" -> PyStr("x")
      \* float("1e400") overflows to inf; the constants NaN and Infinity are
      \* accepted by the decoder
      [] text = "1e400" -> PyFloat("inf")
      [] text = "Infinity" -> PyFloat("inf")
      [] text = "NaN" -> PyFloat("nan")
      [] OTHER -> Raise("JSONDecodeError")

json_dumps(v) ==
    CASE v.type = "dict" /\ v.s = "a=1" -> PyStr("{\"a\": 1}")
      [] v.type = "NoneType" -> PyStr("null")
      [] v.type = "bool" -> PyStr(IF v.n = 1 THEN "true" ELSE "false")
      [] v.type = "int" -> PyStr(ToString(v.n))
      [] v.type = "str" /\ v.s = "x" -> PyStr("\"x\"")
      [] v.type = "str" /\ v.s = "" -> PyStr("\"\"")
      \* allow_nan is left at its default
      [] v.type = "float" /\ v.s = "inf" -> PyStr("Infinity")
      [] v.type = "float" /\ v.s = "nan" -> PyStr("NaN")
      [] OTHER -> Raise("TypeError")

(***************************************************************************)
(* The value converters.                                                   *)
(***************************************************************************)
\* convert_boolean with "if not value" in place of "if value is None"
convert_boolean_falsy_null(value) ==
    IF ~Truthy(value) THEN None ELSE PyBool(Truthy(value))

convert_boolean(value) ==
    IF value = None THEN None ELSE PyBool(Truthy(value))

convert_json(value) ==
    IF value = None THEN None
    ELSE IF value.type = "str"
         THEN LET parsed == json_loads(value.s)
              IN  IF IsRaise(parsed) THEN None ELSE json_dumps(parsed)
         ELSE json_dumps(value)

\* str(value) of a value that is not a string
py_str(value) ==
    CASE value.type = "int" -> PyStr(ToString(value.n))
      [] value.type = "bool" -> PyStr(IF value.n = 1 THEN "True" ELSE "False")
      [] value.type = "bytes" /\ value.s = "b" -> PyStr("b'b'")
      [] OTHER -> PyStr(value.s)

convert_datetime(value) ==
    IF value = None THEN None
    ELSE IF value.type = "str" THEN value ELSE py_str(value)

\* convert_value ending with "return str(value)"
convert_value_default_str(table, column, value) ==
    IF value = None THEN None
    ELSE IF table \in DOMAIN BOOLEAN_COLUMNS /\ column \in BOOLEAN_COLUMNS[table]
         THEN convert_boolean(value)
    ELSE IF table \in DOMAIN JSON_COLUMNS /\ column \in JSON_COLUMNS[table]
         THEN convert_json(value)
    ELSE IF table \in DOMAIN DATETIME_COLUMNS /\ column \in DATETIME_COLUMNS[table]
         THEN convert_datetime(value)
    ELSE IF value.type = "str" THEN value ELSE py_str(value)

convert_value(table, column, value) ==
    IF value = None THEN None
    ELSE IF table \in DOMAIN BOOLEAN_COLUMNS /\ column \in BOOLEAN_COLUMNS[table]
         THEN convert_boolean(value)
    ELSE IF table \in DOMAIN JSON_COLUMNS /\ column \in JSON_COLUMNS[table]
         THEN convert_json(value)
    ELSE IF table \in DOMAIN DATETIME_COLUMNS /\ column \in DATETIME_COLUMNS[table]
         THEN convert_datetime(value)
    ELSE value

(***************************************************************************)
(* The source database.  Every table of the model has the key column "id"  *)
(* and one column that a conversion rule applies to.                       *)
(***************************************************************************)
SourceColumns(t) ==
    CASE t = "users" -> <<"id", "is_active">>
      [] t = "conversation_messages" -> <<"id", "created_at">>
      [] t = "audit_logs" -> <<"id", "details">>

\* the raw values the second column of a source row may hold
Payloads(t) ==
    CASE t = "users" -> {PyInt(1)}
      [] t = "conversation_messages" -> {PyStr("2024-01-30 15:21:00")}
      [] t = "audit_logs" -> {PyStr("{\"a\":1}"), PyBytes("b")}

\* the key of the first row of a source table
FirstKey(t) == IF t = "conversation_messages" THEN 0 ELSE 1

\* the row sets a source table may hold: the keys ascend from FirstKey
RowSeqs(t) ==
    UNION {{[i \in 1..k |-> <<PyInt(FirstKey(t) + i - 1), p[i]>>] :
              p \in [1..k -> Payloads(t)]} : k \in 0..MaxRows}

\* a table missing from the source has no columns
SourceTables(t) ==
    {[columns |-> <<>>, rows |-> <<>>]} \cup
    {[columns |-> SourceColumns(t), rows |-> r] : r \in RowSeqs(t)}

SourceDatabases == {db \in [TableNames -> UNION {SourceTables(t) : t \in TableNames}] :
                      \A t \in TableNames : db[t] \in SourceTables(t)}

VARIABLES
    pc,           \* position of main: start, suspend, migrate, repair, restore,
                  \* summary, done, failed (sys.exit(1) at connect), crashed
    run,          \* number of the current execution of the script
    source,       \* the SQLite database: table -> [columns, rows]
    dest,         \* committed rows of the PostgreSQL tables: table -> rows
    seqs,         \* the PostgreSQL sequences: table -> [last_value, is_called]
    pg_conn,      \* the PostgreSQL connection: [status, pending]
    fk_enforced,  \* session_replication_role = 'origin'
    stats,        \* the MigrationStats object
    table_index,  \* position of the loop of main in MIGRATION_ORDER
    seq_index,    \* position of the loop of reset_sequences in SERIAL_COLUMNS
    exit_code,    \* status given to sys.exit, -1 while running
    log,          \* per table: what migrate_table did in this run
    repair_log,   \* per table: what reset_sequences did in this run
    warnings,     \* sequence names reset_sequences printed a warning for
    committed_before, \* tables whose batch was committed by an earlier run
    dest0         \* the committed rows at the start of this run

vars == <<pc, run, source, dest, seqs, pg_conn, fk_enforced, stats, table_index,
          seq_index, exit_code, log, repair_log, warnings, committed_before, dest0>>

(***************************************************************************)
(* MigrationStats                                                          *)
(***************************************************************************)
MigrationStats ==
    [tables_migrated |-> 0, total_rows |-> 0, errors |-> <<>>,
     skipped_rows |-> [t \in {} |-> 0]]

\* add_error setting the count of the table to 1 instead of adding 1
add_error_assign(st, table, row_num, error) ==
    [st EXCEPT !.errors = Append(@, <<table, row_num, error>>),
               !.skipped_rows = [t \in DOMAIN st.skipped_rows \cup {table} |->
                                   IF t = table THEN 1 ELSE st.skipped_rows[t]]]

\* add_error putting the new entry at the head of the list
add_error_prepend(st, table, row_num, error) ==
    LET known == IF table \in DOMAIN st.skipped_rows THEN st.skipped_rows
                 ELSE [t \in DOMAIN st.skipped_rows \cup {table} |->
                         IF t = table THEN 0 ELSE st.skipped_rows[t]]
    IN  [st EXCEPT !.errors = <<<<table, row_num, error>>>> \o @,
                   !.skipped_rows = [known EXCEPT ![table] = @ + 1]]

\* an entry of stats.errors: the fields of "  {table} row {row_num}: {error}"
add_error(st, table, row_num, error) ==
    LET known == IF table \in DOMAIN st.skipped_rows THEN st.skipped_rows
                 ELSE [t \in DOMAIN st.skipped_rows \cup {table} |->
                         IF t = table THEN 0 ELSE st.skipped_rows[t]]
    IN  [st EXCEPT !.errors = Append(@, <<table, row_num, error>>),
                   !.skipped_rows = [known EXCEPT ![table] = @ + 1]]

(***************************************************************************)
(* The PostgreSQL connection (psycopg2, not autocommit).                   *)
(***************************************************************************)
NewConnection == [status |-> "idle", pending |-> <<>>]

Keys(rows) == {rows[i][1].n : i \in 1..Len(rows)}

\* rows of a table the open transaction has inserted
PendingRows(conn, table) ==
    SelectSeq(conn.pending, LAMBDA e : e[1] = table)

\* the commit left out: the transaction stays open
commit_missing(conn, dst) == [conn |-> conn, dest |-> dst]

\* pg_conn.commit(): an aborted transaction is ended without effect
commit(conn, dst) ==
    [conn |-> [status |-> "idle", pending |-> <<>>],
     dest |-> IF conn.status = "failed" THEN dst
              ELSE [t \in DOMAIN dst |->
                     dst[t] \o [i \in 1..Len(PendingRows(conn, t)) |->
                                   PendingRows(conn, t)[i][2]]]]

\* the except branch without its rollback
rollback_missing(conn, dst) == [conn |-> conn, dest |-> dst]

\* pg_conn.rollback(): what the open transaction inserted is discarded
rollback(conn, dst) ==
    [conn |-> [status |-> "idle", pending |-> <<>>], dest |-> dst]

\* insert_sql without its ON CONFLICT clause
insert_plain(keys, row) ==
    IF row[1].n \in keys THEN "ERROR UniqueViolation" ELSE "INSERT 0 1"

\* one execution of insert_sql: INSERT ... ON CONFLICT DO NOTHING against a
\* table whose key column "id" is unique; the keys are those the
\* transaction sees
insert_sql(keys, row) ==
    IF row[1].n \in keys THEN "INSERT 0 0" ELSE "INSERT 0 1"

\* pg_cursor.executemany(insert_sql, rows): one statement per row inside the
\* open transaction; the server rejects statement number failAt (0: none).
\* Yields the connection, the committed rows, cursor.rowcount and the
\* exception raised ("" if none).
RECURSIVE executemany_from(_, _, _, _, _, _, _)
executemany_from(conn, dst, table, rows, failAt, i, rowcount) ==
    IF i > Len(rows)
    THEN [conn |-> conn, dest |-> dst, rowcount |-> rowcount, raised |-> ""]
    ELSE IF conn.status = "failed"
    THEN [conn |-> conn, dest |-> dst, rowcount |-> -1,
          raised |-> "InFailedSqlTransaction"]
    ELSE LET tag == IF i = failAt THEN "ERROR DatatypeMismatch"
                    ELSE insert_sql(Keys(dst[table]) \cup
                                    Keys([j \in 1..Len(PendingRows(conn, table)) |->
                                            PendingRows(conn, table)[j][2]]),
                                    rows[i])
         IN  IF tag = "INSERT 0 1"
             THEN executemany_from(
                      [status |-> "intrans",
                       pending |-> Append(conn.pending, <<table, rows[i]>>)],
                      dst, table, rows, failAt, i + 1, rowcount + 1)
             ELSE IF tag = "INSERT 0 0"
             THEN executemany_from([conn EXCEPT !.status = "intrans"],
                                   dst, table, rows, failAt, i + 1, rowcount)
             ELSE [conn |-> [conn EXCEPT !.status = "failed"], dest |-> dst,
                   rowcount |-> -1, raised |-> tag]

\* executemany on a connection in autocommit mode: every statement is
\* committed as soon as it has run
RECURSIVE executemany_autocommit_from(_, _, _, _, _, _, _)
executemany_autocommit_from(conn, dst, table, rows, failAt, i, rowcount) ==
    IF i > Len(rows)
    THEN [conn |-> conn, dest |-> dst, rowcount |-> rowcount, raised |-> ""]
    ELSE LET tag == IF i = failAt THEN "ERROR DatatypeMismatch"
                    ELSE insert_sql(Keys(dst[table]), rows[i])
         IN  IF tag = "INSERT 0 1"
             THEN executemany_autocommit_from(
                      conn, [dst EXCEPT ![table] = Append(@, rows[i])],
                      table, rows, failAt, i + 1, rowcount + 1)
             ELSE IF tag = "INSERT 0 0"
             THEN executemany_autocommit_from(conn, dst, table, rows, failAt,
                                              i + 1, rowcount)
             ELSE [conn |-> conn, dest |-> dst, rowcount |-> -1, raised |-> tag]

executemany_autocommit(conn, dst, table, rows, failAt) ==
    executemany_autocommit_from(conn, dst, table, rows, failAt, 1, 0)

\* executemany with rowcount taken as the number of rows handed over
executemany_submitted(conn, dst, table, rows, failAt) ==
    LET done == executemany_from(conn, dst, table, rows, failAt, 1, 0)
    IN  [done EXCEPT !.rowcount = IF done.raised = "" THEN Len(rows) ELSE -1]

executemany(conn, dst, table, rows, failAt) ==
    executemany_from(conn, dst, table, rows, failAt, 1, 0)

(***************************************************************************)
(* migrate_table                                                           *)
(***************************************************************************)
\* the columns taken from the schema the script expects, not from PRAGMA
get_table_columns_assumed(src, table) == SourceColumns(table)

\* PRAGMA table_info: no rows for a table the database does not have
get_table_columns(src, table) == src[table].columns

\* the inner loop of migrate_table over the columns of one row
convert_row(table, columns, row) ==
    [c \in 1..Len(row) |-> convert_value(table, columns[c], row[c])]

\* the exception that ends the conversion of a row: that of its first
\* failing column
FirstRaise(converted_row) ==
    converted_row[CHOOSE c \in 1..Len(converted_row) :
                    /\ IsRaise(converted_row[c])
                    /\ \A d \in 1..(c - 1) : ~IsRaise(converted_row[d])]

\* the conversion loop with "break" in place of "continue"
convert_rows_break(table, columns, rows, row_num, converted_rows, st) ==
    LET Bad(i) == \E c \in 1..Len(rows[i]) :
                     IsRaise(convert_row(table, columns, rows[i])[c])
        bad == {i \in row_num..Len(rows) : Bad(i)}
        stop == IF bad = {} THEN Len(rows) + 1
                ELSE CHOOSE i \in bad : \A j \in bad : i <= j
    IN  [converted_rows |->
            converted_rows \o [i \in 1..(stop - row_num) |->
                                 convert_row(table, columns, rows[row_num + i - 1])],
         stats |-> IF bad = {} THEN st
                   ELSE add_error(st, table, stop,
                                  FirstRaise(convert_row(table, columns, rows[stop])).s)]

\* the loop "for row_num, row in enumerate(rows, 1)" from row row_num on
RECURSIVE convert_rows(_, _, _, _, _, _)
convert_rows(table, columns, rows, row_num, converted_rows, st) ==
    IF row_num > Len(rows)
    THEN [converted_rows |-> converted_rows, stats |-> st]
    ELSE LET converted_row == convert_row(table, columns, rows[row_num])
         IN  IF \E c \in 1..Len(converted_row) : IsRaise(converted_row[c])
             THEN convert_rows(table, columns, rows, row_num + 1, converted_rows,
                               add_error(st, table, row_num,
                                         FirstRaise(converted_row).s))
             ELSE convert_rows(table, columns, rows, row_num + 1,
                               Append(converted_rows, converted_row), st)

\* the early returns replaced by a fall-through to pg_conn.commit()
ReturnedAfterCommit(st, conn, dst, outcome) ==
    [stats |-> st, conn |-> commit(conn, dst).conn, dest |-> commit(conn, dst).dest,
     ret |-> 0, outcome |-> outcome, submitted |-> <<>>, statements |-> 1,
     rejected |-> FALSE]

\* a call of migrate_table that returns before any destination statement
Returned(st, conn, dst, outcome) ==
    [stats |-> st, conn |-> conn, dest |-> dst, ret |-> 0,
     outcome |-> outcome, submitted |-> <<>>, statements |-> 0,
     rejected |-> FALSE]

\* The whole of migrate_table.  readFail: the source raises while the table
\* is read; failAt: the statement of the batch the destination rejects.
\* Yields the new stats, connection and destination, the value returned,
\* and for the record the path taken, the rows given to executemany, the
\* number of calls made on the destination connection and whether the
\* destination rejected a statement of this batch.
migrate_table(src, conn, dst, table, st, readFail, failAt) ==
    IF readFail
    THEN Returned(add_error(st, table, 0, "Table migration failed: DatabaseError"),
                  conn, dst, "read_failed")
    ELSE
    LET columns == get_table_columns(src, table)
        rows == src[table].rows
    IN  IF columns = <<>> THEN Returned(st, conn, dst, "not_found")
        ELSE IF src[table].columns = <<>>
        \* SELECT * FROM a table the database does not have raises
        THEN Returned(add_error(st, table, 0,
                                "Table migration failed: OperationalError"),
                      conn, dst, "select_failed")
        ELSE IF rows = <<>> THEN Returned(st, conn, dst, "empty")
        ELSE
        LET conv == convert_rows(table, columns, rows, 1, <<>>, st)
            converted_rows == conv.converted_rows
        IN  IF converted_rows = <<>>
            THEN Returned(conv.stats, conn, dst, "all_skipped")
            ELSE
            LET done == executemany(conn, dst, table, converted_rows, failAt)
            IN  IF done.raised = ""
                THEN LET after == commit(done.conn, done.dest)
                         rows_inserted == done.rowcount
                     IN  [stats |-> [conv.stats EXCEPT
                                       !.total_rows = @ + rows_inserted],
                          conn |-> after.conn, dest |-> after.dest,
                          ret |-> rows_inserted, outcome |-> "committed",
                          submitted |-> converted_rows, statements |-> 2,
                          rejected |-> FALSE]
                ELSE LET after == rollback(done.conn, done.dest)
                     IN  [stats |-> add_error(conv.stats, table, 0,
                                        "Batch insert failed: " \o done.raised),
                          conn |-> after.conn, dest |-> after.dest,
                          ret |-> 0, outcome |-> "batch_failed",
                          submitted |-> converted_rows, statements |-> 2,
                          rejected |-> done.raised = "ERROR DatatypeMismatch"]

(***************************************************************************)
(* reset_sequences                                                         *)
(***************************************************************************)
\* a sequence as CREATE SEQUENCE leaves it
NewSequence == [last_value |-> 1, is_called |-> FALSE]

\* setval(seq, value, false): the next value is value itself
setval_not_called(sq, value) == [last_value |-> value, is_called |-> FALSE]

\* SELECT setval(seq, value): takes effect at once, outside any transaction
setval(sq, value) == [last_value |-> value, is_called |-> TRUE]

\* the value the next nextval(seq) yields
nextval(sq) == IF sq.is_called THEN sq.last_value + 1 ELSE sq.last_value

SetMax(S) == CHOOSE m \in S : \A k \in S : k <= m

\* SELECT MAX(id) FROM table, as the open transaction sees the table
select_max(conn, dst, table) ==
    LET keys == Keys(dst[table]) \cup
                Keys([j \in 1..Len(PendingRows(conn, table)) |->
                        PendingRows(conn, table)[j][2]])
    IN  IF keys = {} THEN None ELSE PyInt(SetMax(keys))

\* One iteration of the loop of reset_sequences.  failStmt: the statement
\* the destination rejects ("none", "select" or "setval").
reset_sequence(conn, dst, sq, table, failStmt) ==
    IF conn.status = "failed"
    THEN [conn |-> conn, dest |-> dst, seqs |-> sq, outcome |-> "failed_aborted",
          warned |-> TRUE]
    ELSE IF failStmt = "select"
    THEN [conn |-> [conn EXCEPT !.status = "failed"], dest |-> dst, seqs |-> sq,
          outcome |-> "failed", warned |-> TRUE]
    ELSE
    LET max_val == select_max(conn, dst, table)
        opened == [conn EXCEPT !.status = "intrans"]
    IN  IF Truthy(max_val)
        THEN IF failStmt = "setval"
             THEN [conn |-> [conn EXCEPT !.status = "failed"], dest |-> dst,
                   seqs |-> sq, outcome |-> "failed", warned |-> TRUE]
             ELSE LET after == commit(opened, dst)
                  IN  [conn |-> after.conn, dest |-> after.dest,
                       seqs |-> [sq EXCEPT ![table] = setval(@, max_val.n)],
                       outcome |-> "reset", warned |-> FALSE]
        ELSE [conn |-> opened, dest |-> dst, seqs |-> sq, outcome |-> "skipped",
              warned |-> FALSE]

(***************************************************************************)
(* main                                                                    *)
(***************************************************************************)
EmptyLog ==
    [t \in TableNames |->
        [outcome |-> "none", ret |-> 0, submitted |-> <<>>, statements |-> 0,
         rejected |-> FALSE]]

EmptyRepairLog == [t \in DOMAIN SERIAL_COLUMNS |-> "none"]

\* an end of main that always reports success
ExitCodeZero(st) == 0

\* the status main gives to sys.exit at its end
ExitCode(st) == IF st.errors # <<>> THEN 1 ELSE 0

Init ==
    /\ pc = "start"
    /\ run = 1
    /\ source \in SourceDatabases
    /\ dest = [t \in TableNames |-> <<>>]
    /\ seqs = [t \in DOMAIN SERIAL_COLUMNS |-> NewSequence]
    /\ pg_conn = [status |-> "closed", pending |-> <<>>]
    /\ fk_enforced = TRUE
    /\ stats = MigrationStats
    /\ table_index = 1
    /\ seq_index = 1
    /\ exit_code = -1
    /\ log = EmptyLog
    /\ repair_log = EmptyRepairLog
    /\ warnings = {}
    /\ committed_before = {}
    /\ dest0 = [t \in TableNames |-> <<>>]

\* sqlite3.connect and psycopg2.connect; either failing is sys.exit(1)
Connect ==
    /\ pc = "start"
    /\ \E sqlite_ok \in BOOLEAN, pg_ok \in BOOLEAN :
         IF sqlite_ok /\ pg_ok
         THEN /\ pc' = "suspend"
              /\ pg_conn' = NewConnection
              /\ exit_code' = exit_code
         ELSE /\ pc' = "failed"
              /\ pg_conn' = pg_conn
              /\ exit_code' = 1
    /\ UNCHANGED <<run, source, dest, seqs, fk_enforced, stats, table_index,
                   seq_index, log, repair_log, warnings, committed_before, dest0>>

\* the start of main without the SET session_replication_role = 'replica'
SuspendFKSkipped ==
    /\ pc = "suspend"
    /\ stats' = MigrationStats
    /\ pc' = "migrate"
    /\ UNCHANGED <<run, source, dest, seqs, pg_conn, fk_enforced, table_index,
                   seq_index, exit_code, log, repair_log, warnings,
                   committed_before, dest0>>

\* stats = MigrationStats(); SET session_replication_role = 'replica'; commit
SuspendFK ==
    /\ pc = "suspend"
    /\ pg_conn.status # "failed"
    /\ stats' = MigrationStats
    /\ fk_enforced' = FALSE
    /\ pg_conn' = commit([pg_conn EXCEPT !.status = "intrans"], dest).conn
    /\ dest' = commit([pg_conn EXCEPT !.status = "intrans"], dest).dest
    /\ pc' = "migrate"
    /\ UNCHANGED <<run, source, seqs, table_index, seq_index, exit_code, log,
                   repair_log, warnings, committed_before, dest0>>

\* the loop of main counting a table only when its batch was committed
MigrateTableCountingSuccess ==
    /\ pc = "migrate"
    /\ table_index <= Len(MIGRATION_ORDER)
    /\ \E readFail \in BOOLEAN, failAt \in 0..MaxRows :
         LET table == MIGRATION_ORDER[table_index]
             m == migrate_table(source, pg_conn, dest, table, stats, readFail, failAt)
         IN  /\ stats' = [m.stats EXCEPT !.tables_migrated =
                             IF m.outcome = "committed" THEN @ + 1 ELSE @]
             /\ pg_conn' = m.conn
             /\ dest' = m.dest
             /\ log' = [log EXCEPT ![table] =
                          [outcome |-> m.outcome, ret |-> m.ret,
                           submitted |-> m.submitted, statements |-> m.statements,
                           rejected |-> m.rejected]]
    /\ table_index' = table_index + 1
    /\ pc' = IF table_index = Len(MIGRATION_ORDER) THEN "repair" ELSE "migrate"
    /\ UNCHANGED <<run, source, seqs, fk_enforced, seq_index, exit_code,
                   repair_log, warnings, committed_before, dest0>>

\* one iteration of "for table in MIGRATION_ORDER"
MigrateTable ==
    /\ pc = "migrate"
    /\ table_index <= Len(MIGRATION_ORDER)
    /\ \E readFail \in BOOLEAN, failAt \in 0..MaxRows :
         LET table == MIGRATION_ORDER[table_index]
             m == migrate_table(source, pg_conn, dest, table, stats, readFail, failAt)
         IN  /\ stats' = [m.stats EXCEPT !.tables_migrated = @ + 1]
             /\ pg_conn' = m.conn
             /\ dest' = m.dest
             /\ log' = [log EXCEPT ![table] =
                          [outcome |-> m.outcome, ret |-> m.ret,
                           submitted |-> m.submitted, statements |-> m.statements,
                           rejected |-> m.rejected]]
    /\ table_index' = table_index + 1
    /\ pc' = IF table_index = Len(MIGRATION_ORDER) THEN "repair" ELSE "migrate"
    /\ UNCHANGED <<run, source, seqs, fk_enforced, seq_index, exit_code,
                   repair_log, warnings, committed_before, dest0>>

\* one iteration of "for table, col in SERIAL_COLUMNS.items()"
ResetSequence ==
    /\ pc = "repair"
    /\ seq_index <= Len(SERIAL_TABLES)
    /\ \E failStmt \in {"none", "select", "setval"} :
         LET table == SERIAL_TABLES[seq_index]
             r == reset_sequence(pg_conn, dest, seqs, table, failStmt)
         IN  /\ pg_conn' = r.conn
             /\ dest' = r.dest
             /\ seqs' = r.seqs
             /\ repair_log' = [repair_log EXCEPT ![table] = r.outcome]
             /\ warnings' = IF r.warned THEN warnings \cup {table} ELSE warnings
    /\ seq_index' = seq_index + 1
    /\ pc' = IF seq_index = Len(SERIAL_TABLES) THEN "restore" ELSE "repair"
    /\ UNCHANGED <<run, source, fk_enforced, stats, table_index, exit_code, log,
                   committed_before, dest0>>

\* SET session_replication_role = 'origin'; commit.  The statement raises on
\* an aborted transaction, and nothing in main catches it.
RestoreFK ==
    /\ pc = "restore"
    /\ IF pg_conn.status = "failed"
       THEN /\ pc' = "crashed"
            /\ exit_code' = 1
            /\ UNCHANGED <<fk_enforced, pg_conn, dest>>
       ELSE /\ pc' = "summary"
            /\ fk_enforced' = TRUE
            /\ pg_conn' = commit([pg_conn EXCEPT !.status = "intrans"], dest).conn
            /\ dest' = commit([pg_conn EXCEPT !.status = "intrans"], dest).dest
            /\ exit_code' = exit_code
    /\ UNCHANGED <<run, source, seqs, stats, table_index, seq_index, log,
                   repair_log, warnings, committed_before, dest0>>

\* close both connections, print the summary, sys.exit
Finish ==
    /\ pc = "summary"
    /\ pg_conn' = [status |-> "closed", pending |-> <<>>]
    /\ exit_code' = ExitCode(stats)
    /\ pc' = "done"
    /\ UNCHANGED <<run, source, dest, seqs, fk_enforced, stats, table_index,
                   seq_index, log, repair_log, warnings, committed_before, dest0>>

\* the script is executed again on the same two databases
Rerun ==
    /\ pc \in {"done", "failed", "crashed"}
    /\ run < MaxRuns
    /\ run' = run + 1
    /\ pc' = "start"
    /\ pg_conn' = [status |-> "closed", pending |-> <<>>]
    /\ fk_enforced' = TRUE
    /\ stats' = MigrationStats
    /\ table_index' = 1
    /\ seq_index' = 1
    /\ exit_code' = -1
    /\ log' = EmptyLog
    /\ repair_log' = EmptyRepairLog
    /\ warnings' = {}
    /\ committed_before' = committed_before \cup
                           {t \in TableNames : log[t].outcome = "committed"}
    /\ dest0' = dest
    /\ UNCHANGED <<source, dest, seqs>>

Next ==
    \/ Connect
    \/ SuspendFK
    \/ MigrateTable
    \/ ResetSequence
    \/ RestoreFK
    \/ Finish
    \/ Rerun

Spec == Init /\ [][Next]_vars

(***************************************************************************)
(* Runs against a destination that already holds a part of the data: the   *)
(* source tables are full, and a destination table is empty or holds the   *)
(* row of the second key of the table.                                     *)
(***************************************************************************)
\* the row a destination table may hold before the first run
PresentRow(t) ==
    convert_row(t, SourceColumns(t),
                <<PyInt(FirstKey(t) + 1),
                  CHOOSE p \in Payloads(t) :
                      ~IsRaise(convert_value(t, SourceColumns(t)[2], p))>>)

FullDatabases ==
    {db \in SourceDatabases : \A t \in TableNames : Len(db[t].rows) = MaxRows}

PartialDestinations ==
    {d \in [TableNames -> UNION {{<<>>, <<PresentRow(t)>>} : t \in TableNames}] :
        \A t \in TableNames : d[t] \in {<<>>, <<PresentRow(t)>>}}

InitPartial ==
    /\ pc = "start"
    /\ run = 1
    /\ source \in FullDatabases
    /\ dest \in PartialDestinations
    /\ dest0 = dest
    /\ seqs = [t \in DOMAIN SERIAL_COLUMNS |-> NewSequence]
    /\ pg_conn = [status |-> "closed", pending |-> <<>>]
    /\ fk_enforced = TRUE
    /\ stats = MigrationStats
    /\ table_index = 1
    /\ seq_index = 1
    /\ exit_code = -1
    /\ log = EmptyLog
    /\ repair_log = EmptyRepairLog
    /\ warnings = {}
    /\ committed_before = {}

SpecPartial == InitPartial /\ [][Next]_vars

(***************************************************************************)
(* Runs that exercise the value converters: one table of the source holds  *)
(* one row, whose second column is any of the columns below and holds any  *)
(* of the values below; the other tables are missing.                      *)
(***************************************************************************)
\* a column of each rule kind, and one no rule names
ConvertColumns == {"is_active", "details", "created_at", "email"}

\* values sqlite3 hands over: None, int, str, bytes
ConvertValues ==
    {None, PyInt(0), PyInt(1), PyStr(""), PyStr("x"), PyStr("{\"a\":1}"),
     PyStr("{\"a\": 1}"), PyStr("null"), PyStr("\"x\""), PyStr("1e400"),
     PyStr("NaN"), PyStr("2024-01-30 15:21:00"), PyBytes("b")}

ConvertDatabases ==
    {[t \in TableNames |->
         IF t = tt THEN [columns |-> <<"id", c>>, rows |-> <<<<PyInt(1), v>>>>]
         ELSE [columns |-> <<>>, rows |-> <<>>]] :
       tt \in TableNames, c \in ConvertColumns, v \in ConvertValues}

InitConvert ==
    /\ pc = "start"
    /\ run = 1
    /\ source \in ConvertDatabases
    /\ dest = [t \in TableNames |-> <<>>]
    /\ dest0 = dest
    /\ seqs = [t \in DOMAIN SERIAL_COLUMNS |-> NewSequence]
    /\ pg_conn = [status |-> "closed", pending |-> <<>>]
    /\ fk_enforced = TRUE
    /\ stats = MigrationStats
    /\ table_index = 1
    /\ seq_index = 1
    /\ exit_code = -1
    /\ log = EmptyLog
    /\ repair_log = EmptyRepairLog
    /\ warnings = {}
    /\ committed_before = {}

SpecConvert == InitConvert /\ [][Next]_vars

(***************************************************************************)
(* Properties                                                              *)
(***************************************************************************)
Processed(t) == log[t].outcome # "none"

NoDuplicateKey(rows) ==
    \A i, j \in 1..Len(rows) : rows[i][1].n = rows[j][1].n => i = j

\* the entries of the error list of a table: row-level, table-level
RowErrors(t) ==
    {i \in 1..Len(stats.errors) : stats.errors[i][1] = t /\ stats.errors[i][2] >= 1}

TableErrors(t) ==
    {i \in 1..Len(stats.errors) : stats.errors[i][1] = t /\ stats.errors[i][2] = 0}

\* the rows of a batch the destination did not hold when the run started
NewRows(batch, held) ==
    SelectSeq(batch, LAMBDA r : r[1].n \notin Keys(held))

\* C1: on a run after the first, every table whose batch an earlier run
\* committed reports zero rows written and gains no row, no destination
\* table holds two rows with one key, and no recorded error is a
\* duplicate-key error.
C1_Idempotent ==
    run >= 2 =>
        /\ \A t \in committed_before :
               Processed(t) => log[t].ret = 0 /\ dest[t] = dest0[t]
        /\ \A t \in TableNames : NoDuplicateKey(dest[t])
        /\ \A i \in 1..Len(stats.errors) :
               stats.errors[i][3] # "Batch insert failed: ERROR UniqueViolation"

\* a second run has committed the batch of a table the first run committed
C1_Witness ==
    /\ run = 2
    /\ \E t \in committed_before :
          /\ log[t].outcome = "committed"
          /\ Len(log[t].submitted) = MaxRows
          /\ log[t].ret = 0

\* C2: in every state, the committed rows of a table are those it held at
\* the start of the run, followed either by nothing or by the whole batch
\* (less the rows already held); the batch is there exactly when the insert
\* succeeded.
C2_TableAtomic ==
    \A t \in TableNames :
        \/ /\ log[t].outcome = "committed"
           /\ dest[t] = dest0[t] \o NewRows(log[t].submitted, dest0[t])
        \/ /\ log[t].outcome # "committed"
           /\ dest[t] = dest0[t]

\* a batch of several rows was rejected and nothing of it is committed
C2_Witness ==
    \E t \in TableNames :
        /\ log[t].outcome = "batch_failed"
        /\ Len(log[t].submitted) >= 2
        /\ dest[t] = <<>>

\* what migrate_table does for table t when it is the only table migrated,
\* under the failures its own run met
Alone(t) ==
    migrate_table(source, NewConnection, dest0, t, MigrationStats,
                  log[t].outcome = "read_failed",
                  IF log[t].rejected THEN 1 ELSE 0)

\* C3: when the batch write of table B failed, B has exactly one
\* table-level error and zero rows written, and every other table migrated
\* so far holds the rows and reports the count it has when migrated alone.
C3_TableIsolation ==
    \A B \in TableNames :
        log[B].outcome = "batch_failed" =>
            /\ Cardinality(TableErrors(B)) = 1
            /\ log[B].ret = 0
            /\ dest[B] = dest0[B]
            /\ \A t \in TableNames \ {B} :
                   Processed(t) =>
                       LET alone == Alone(t)
                       IN  /\ dest[t] = alone.dest[t]
                           /\ log[t].ret = alone.ret
                           /\ log[t].outcome = alone.outcome

\* the middle table failed, the tables before and after it are committed
C3_Witness ==
    /\ log[MIGRATION_ORDER[2]].outcome = "batch_failed"
    /\ log[MIGRATION_ORDER[1]].outcome = "committed"
    /\ log[MIGRATION_ORDER[3]].outcome = "committed"
    /\ log[MIGRATION_ORDER[1]].ret >= 1
    /\ log[MIGRATION_ORDER[3]].ret >= 1

\* the source rows of a table whose conversion raises
FailingRows(t) ==
    {i \in 1..Len(source[t].rows) :
        \E c \in 1..Len(source[t].rows[i]) :
            IsRaise(convert_row(t, source[t].columns, source[t].rows[i])[c])}

\* the rows of a table in order, without row k
Without(rows, k) ==
    [i \in 1..(Len(rows) - 1) |-> IF i < k THEN rows[i] ELSE rows[i + 1]]

\* C4: when exactly one of the N rows of a migrated table fails conversion,
\* the N-1 other rows, converted and in order, are what is submitted, and
\* the table has exactly one row-level error, carrying the 1-based index
\* of the failing row.
C4_RowIsolation ==
    \A t \in TableNames :
        (/\ Processed(t)
         /\ log[t].outcome # "read_failed"
         /\ Cardinality(FailingRows(t)) = 1) =>
            LET k == CHOOSE i \in FailingRows(t) : TRUE
                rest == Without(source[t].rows, k)
            IN  /\ log[t].submitted =
                       [i \in 1..Len(rest) |->
                           convert_row(t, source[t].columns, rest[i])]
                /\ Len(log[t].submitted) = Len(source[t].rows) - 1
                /\ Cardinality(RowErrors(t)) = 1
                /\ \A e \in RowErrors(t) :
                       stats.errors[e][1] = t /\ stats.errors[e][2] = k

\* the first of several rows failed conversion and the rows after it were
\* submitted
C4_Witness ==
    \E t \in TableNames :
        /\ Processed(t)
        /\ FailingRows(t) = {1}
        /\ Len(source[t].rows) >= 2
        /\ Len(log[t].submitted) = Len(source[t].rows) - 1
        /\ RowErrors(t) # {}

\* main has ended: by sys.exit at its end, or by an exception nothing caught
Ended == pc \in {"done", "crashed"}

SerialIndex(t) == CHOOSE i \in 1..Len(SERIAL_TABLES) : SERIAL_TABLES[i] = t

RepairFailed(t) == repair_log[t] \in {"failed", "failed_aborted"}

\* C5: a run that suspended referential-integrity enforcement has restored
\* it when it ends, on whatever path it ends.
C5_EnforcementRestored ==
    Ended => fk_enforced

\* C6: once table migration has begun the run does not end abnormally,
\* whatever failed along the way, and it is Done only with enforcement
\* restored.
C6_NonAborting ==
    /\ pc \in {"failed", "crashed"} => \A t \in TableNames : ~Processed(t)
    /\ pc = "done" => fk_enforced /\ exit_code \in {0, 1}

\* C7: when the repair of one sequence failed, the repair of every later
\* generated-key table is still carried out (unless it fails by itself): the
\* next value of its sequence lies above every key of the table, and the
\* failure was reported.
C7_RepairIsolation ==
    \A f, t \in DOMAIN SERIAL_COLUMNS :
        (/\ SerialIndex(f) < SerialIndex(t)
         /\ RepairFailed(f)
         /\ repair_log[t] \notin {"none", "failed"}) =>
            /\ f \in warnings
            /\ repair_log[t] \in {"reset", "skipped"}
            /\ \A k \in Keys(dest[t]) : nextval(seqs[t]) > k

\* the number of errors migrate_table met for a table in this run
MigrationErrors(t) ==
    (IF Processed(t) /\ log[t].outcome # "read_failed"
     THEN Cardinality(FailingRows(t)) ELSE 0) +
    (IF log[t].outcome \in {"read_failed", "batch_failed"} THEN 1 ELSE 0)

\* C8: after the repair of a generated-key table went through, the next
\* value of its sequence is greater than every key in the table; for an
\* empty table the sequence is left as created, nothing is reported and the
\* error list holds no entry beyond those of the migration of the table.
C8_SequenceRepaired ==
    \A t \in DOMAIN SERIAL_COLUMNS :
        repair_log[t] \in {"reset", "skipped"} =>
            /\ \A k \in Keys(dest[t]) : nextval(seqs[t]) > k
            /\ dest[t] = <<>> =>
                   /\ repair_log[t] = "skipped"
                   /\ seqs[t] = NewSequence
                   /\ t \notin warnings
                   /\ Cardinality(RowErrors(t) \cup TableErrors(t)) =
                          MigrationErrors(t)

\* the sequence of a table holding several rows was reset
C8_Witness ==
    \E t \in DOMAIN SERIAL_COLUMNS :
        /\ repair_log[t] = "reset"
        /\ Cardinality(Keys(dest[t])) >= 2
        /\ nextval(seqs[t]) = SetMax(Keys(dest[t])) + 1

\* C9: every non-fatal error of the run has its entry in stats.errors: each
\* row whose conversion failed (table and row index), each failed table
\* (table, index 0), each failed sequence repair (table).
C9_ErrorsAccumulated ==
    /\ \A t \in TableNames :
          /\ (Processed(t) /\ log[t].outcome \notin {"read_failed"}) =>
                 \A k \in FailingRows(t) :
                     \E i \in 1..Len(stats.errors) :
                         stats.errors[i][1] = t /\ stats.errors[i][2] = k
          /\ log[t].outcome \in {"read_failed", "batch_failed"} =>
                 TableErrors(t) # {}
    /\ \A t \in DOMAIN SERIAL_COLUMNS :
          RepairFailed(t) =>
              \E i \in 1..Len(stats.errors) : stats.errors[i][1] = t

\* C10: a run that reaches its end exits with 0 exactly when stats.errors is
\* empty, and with a non-zero status otherwise.
C10_ExitContract ==
    pc = "done" =>
        /\ exit_code = 0 <=> stats.errors = <<>>
        /\ exit_code # 0 <=> stats.errors # <<>>

\* a run with recorded errors reached its end
C10_Witness ==
    /\ pc = "done"
    /\ Len(stats.errors) >= 2
    /\ exit_code = 1

\* the rows the run has added to the first i tables of the plan
RowsAdded[i \in 0..Len(MIGRATION_ORDER)] ==
    IF i = 0 THEN 0
    ELSE RowsAdded[i - 1] + Len(dest[MIGRATION_ORDER[i]])
                          - Len(dest0[MIGRATION_ORDER[i]])

\* the rows of a batch whose key the destination held when the run started
AlreadyPresent(batch, held) ==
    SelectSeq(batch, LAMBDA r : r[1].n \in Keys(held))

\* C11: for every table whose batch was committed, the count returned is
\* the number of rows the table gained, which is the number of rows
\* submitted less those already present; stats.total_rows is the number of
\* rows the run has added to the destination; and the rows skipped as
\* present leave no entry in stats.errors (the entries of the table are
\* those of its conversion failures).
C11_WrittenRows ==
    /\ \A t \in TableNames :
          log[t].outcome = "committed" =>
              /\ log[t].ret = Len(dest[t]) - Len(dest0[t])
              /\ log[t].ret = Len(log[t].submitted) -
                                 Len(AlreadyPresent(log[t].submitted, dest0[t]))
              /\ TableErrors(t) = {}
              /\ Cardinality(RowErrors(t)) = Cardinality(FailingRows(t))
    /\ stats.total_rows = RowsAdded[Len(MIGRATION_ORDER)]

\* a batch of which one row was already present was committed, and the run
\* reached its end
C11_Witness ==
    /\ pc = "done"
    /\ \E t \in TableNames :
          /\ log[t].outcome = "committed"
          /\ Len(log[t].submitted) >= 2
          /\ Len(AlreadyPresent(log[t].submitted, dest0[t])) = 1
          /\ log[t].ret = Len(log[t].submitted) - 1
          /\ stats.total_rows >= log[t].ret

\* C12: the run is in its Failed state only through a connection that could
\* not be established, with no statement executed on the destination
\* (enforcement untouched, no table touched, nothing written) and a
\* non-zero exit status; and once both connections are established no
\* failure halts the run: it does not end by sys.exit(1) of the connection
\* step nor by an uncaught exception.
C12_FatalOnlyAtConnect ==
    /\ pc = "failed" =>
          /\ pg_conn.status = "closed"
          /\ fk_enforced
          /\ dest = dest0
          /\ \A t \in TableNames : ~Processed(t)
          /\ stats = MigrationStats
          /\ exit_code \notin {0, -1}
    /\ pg_conn.status # "closed" => pc \notin {"failed", "crashed"}

\* where a run stands: the tables of the plan before table_index are the
\* processed ones, the sequences before seq_index the repaired ones
PhaseOrder ==
    /\ \A i \in 1..Len(MIGRATION_ORDER) :
          Processed(MIGRATION_ORDER[i]) <=> i < table_index
    /\ \A j \in 1..Len(SERIAL_TABLES) :
          repair_log[SERIAL_TABLES[j]] # "none" <=> j < seq_index
    /\ pc \in {"start", "suspend", "failed"} =>
          fk_enforced /\ table_index = 1 /\ dest = dest0
    /\ pc = "migrate" =>
          ~fk_enforced /\ table_index <= Len(MIGRATION_ORDER) /\ seq_index = 1
    /\ pc = "repair" =>
          ~fk_enforced /\ seq_index <= Len(SERIAL_TABLES)
    /\ seq_index > 1 => table_index = Len(MIGRATION_ORDER) + 1
    /\ pc \in {"repair", "restore", "summary", "done", "crashed"} =>
          table_index = Len(MIGRATION_ORDER) + 1
    /\ pc \in {"restore", "summary", "done", "crashed"} =>
          seq_index = Len(SERIAL_TABLES) + 1
    /\ fk_enforced <=> pc \in {"start", "suspend", "failed", "summary", "done"}

\* a step of one run: tables are taken one by one in plan order, sequences
\* likewise and only after the last table, enforcement comes back only
\* after the last sequence, and the destination tables change only in the
\* migration phase
PhaseStep ==
    run' = run =>
        /\ table_index' \in {table_index, table_index + 1}
        /\ seq_index' \in {seq_index, seq_index + 1}
        /\ log' # log =>
              /\ pc = "migrate" /\ ~fk_enforced
              /\ table_index' = table_index + 1
              /\ \A t \in TableNames \ {MIGRATION_ORDER[table_index]} :
                     log'[t] = log[t]
        /\ seq_index' # seq_index =>
              pc = "repair" /\ table_index = Len(MIGRATION_ORDER) + 1
        /\ (fk_enforced' /\ ~fk_enforced) =>
              pc = "restore" /\ seq_index = Len(SERIAL_TABLES) + 1
        /\ dest' # dest => pc = "migrate" /\ ~fk_enforced /\ seq_index = 1

\* C13: enforcement is suspended before the first table is touched, the
\* tables are migrated one by one in the order of MIGRATION_ORDER, the
\* sequences are repaired once each and only after the last table,
\* enforcement is restored only after the last repair, and no destination
\* table is written before the suspension or once the repair has started.
C13_PhaseOrdering == []PhaseOrder /\ [][PhaseStep]_vars

\* the run went through every phase: all tables processed with rows
\* written, all sequences repaired, enforcement restored
C13_Witness ==
    /\ pc = "done"
    /\ fk_enforced
    /\ \A t \in TableNames : Processed(t) /\ dest[t] # dest0[t]
    /\ \A t \in DOMAIN SERIAL_COLUMNS : repair_log[t] = "reset"

\* the position of a table in the plan
PlanIndex(t) == CHOOSE i \in 1..Len(MIGRATION_ORDER) : MIGRATION_ORDER[i] = t

\* C14: a table of the plan the source does not have (and whose lookup did
\* not itself fail) is skipped: zero rows returned, no call made on the
\* destination connection, its destination table as it was, no error
\* recorded for it; the loop goes on, and every later table that has been
\* processed - all of them once the loop is over - has the outcome, the
\* count and the rows it has when migrated alone.
C14_MissingTable ==
    \A t \in TableNames :
        (/\ Processed(t)
         /\ source[t].columns = <<>>
         /\ log[t].outcome # "read_failed") =>
            /\ log[t].outcome = "not_found"
            /\ log[t].ret = 0
            /\ log[t].statements = 0
            /\ log[t].submitted = <<>>
            /\ dest[t] = dest0[t]
            /\ RowErrors(t) \cup TableErrors(t) = {}
            /\ stats.tables_migrated = table_index - 1
            /\ table_index <= Len(MIGRATION_ORDER) => pc = "migrate"
            /\ \A u \in TableNames :
                   PlanIndex(u) > PlanIndex(t) =>
                       /\ pc # "migrate" => Processed(u)
                       /\ Processed(u) =>
                              LET alone == Alone(u)
                              IN  /\ log[u].outcome = alone.outcome
                                  /\ log[u].ret = alone.ret
                                  /\ dest[u] = alone.dest[u]

\* the first table of the plan is missing from the source and the two
\* tables after it were migrated with rows written
C14_Witness ==
    /\ source[MIGRATION_ORDER[1]].columns = <<>>
    /\ log[MIGRATION_ORDER[1]].outcome = "not_found"
    /\ \A i \in 2..Len(MIGRATION_ORDER) :
          /\ log[MIGRATION_ORDER[i]].outcome = "committed"
          /\ log[MIGRATION_ORDER[i]].ret = MaxRows
    /\ stats.total_rows = 2 * MaxRows
    /\ pc = "done"

\* a step of the loop of main on a table that exists and whose source rows
\* all fail conversion (none at all included), the read not failing
EmptyBatchStep ==
    LET t == MIGRATION_ORDER[table_index]
    IN  (/\ pc = "migrate"
         /\ table_index' = table_index + 1
         /\ source[t].columns # <<>>
         /\ Cardinality(FailingRows(t)) = Len(source[t].rows)
         /\ log'[t].outcome # "read_failed") =>
            /\ log'[t].outcome =
                   IF source[t].rows = <<>> THEN "empty" ELSE "all_skipped"
            /\ log'[t].ret = 0
            /\ log'[t].submitted = <<>>
            /\ log'[t].statements = 0
            /\ dest' = dest
            /\ pg_conn' = pg_conn
            /\ stats'.total_rows = stats.total_rows
            /\ Len(stats'.errors) = Len(stats.errors) + Len(source[t].rows)

\* C15: when no row of a table is left after conversion - the table is
\* empty, or every row failed - migrate_table returns 0 without a call on
\* the destination connection: no insert, no commit, no rollback; the
\* destination tables, the connection and stats.total_rows are as before.
C15_EmptyBatchNoOp == [][EmptyBatchStep]_vars

\* a table all of whose several rows failed conversion was processed after
\* a table that wrote rows
C15_Witness ==
    \E t \in TableNames :
        /\ log[t].outcome = "all_skipped"
        /\ Len(source[t].rows) >= 2
        /\ Cardinality(RowErrors(t)) = Len(source[t].rows)
        /\ dest[t] = <<>>
        /\ stats.total_rows >= 1

\* the table went through the conversion loop of migrate_table
Converted(t) == log[t].outcome \in {"committed", "batch_failed", "all_skipped"}

\* the source rows of a table that have a row-level entry in stats.errors
ErrorRows(t) == {stats.errors[e][2] : e \in RowErrors(t)}

\* the row handed to executemany for source row i
SubmittedRow(t, i) ==
    log[t].submitted[i - Cardinality({k \in ErrorRows(t) : k < i})]

\* no column of source row i other than column c raises in conversion
OthersConvert(t, i, c) ==
    \A d \in 1..Len(source[t].columns) :
        d # c => ~IsRaise(convert_value(t, source[t].columns[d],
                                       source[t].rows[i][d]))

\* column c of table t falls under the JSON rule of convert_value
JsonRule(t, c) ==
    /\ source[t].columns[c] \in JSON_COLUMNS[t]
    /\ source[t].columns[c] \notin BOOLEAN_COLUMNS[t]

\* the data a text denotes as JSON (RFC 8259), "invalid" if it is not JSON
JsonData(text) ==
    CASE text = "{\"a\":1}" -> "object a=1"
      [] text = "{\"a\": 1}" -> "object a=1"
      [] text = "null" -> "null"
      [] text = "true" -> "true"
      [] text = "1" -> "number 1"
      [] text = "\"x\"" -> "string x"
      [] text = "1e400" -> "number 1e400"
      [] OTHER -> "invalid"

\* C16: a text in a JSON column never makes a row-level error: the row is
\* handed to executemany, with None in that column when the text is not
\* well-formed JSON, and otherwise with a text that is JSON for the same
\* data as the original.
C16_MalformedJsonIsNull ==
    \A t \in TableNames :
        Converted(t) =>
            \A i \in 1..Len(source[t].rows) :
                \A c \in 1..Len(source[t].columns) :
                    LET value == source[t].rows[i][c]
                    IN  (/\ JsonRule(t, c)
                         /\ value.type = "str"
                         /\ OthersConvert(t, i, c)) =>
                            /\ i \notin ErrorRows(t)
                            /\ IF JsonData(value.s) = "invalid"
                               THEN SubmittedRow(t, i)[c] = None
                               ELSE /\ SubmittedRow(t, i)[c].type = "str"
                                    /\ JsonData(SubmittedRow(t, i)[c].s) =
                                           JsonData(value.s)

\* column c of table t falls under the boolean rule of convert_value
BooleanRule(t, c) == source[t].columns[c] \in BOOLEAN_COLUMNS[t]

\* C17: a value of a boolean column never makes a row-level error, and the
\* row is handed to executemany with False for 0, True for 1, None for
\* None, False for "" and True for "x"; whatever the value, if it is not
\* None the column is handed over as True or as False.
C17_BooleanRule ==
    \A t \in TableNames :
        Converted(t) =>
            \A i \in 1..Len(source[t].rows) :
                \A c \in 1..Len(source[t].columns) :
                    LET value == source[t].rows[i][c]
                    IN  (BooleanRule(t, c) /\ OthersConvert(t, i, c)) =>
                            /\ i \notin ErrorRows(t)
                            /\ value = PyInt(0) =>
                                   SubmittedRow(t, i)[c] = PyBool(FALSE)
                            /\ value = PyInt(1) =>
                                   SubmittedRow(t, i)[c] = PyBool(TRUE)
                            /\ value = None => SubmittedRow(t, i)[c] = None
                            /\ value = PyStr("") =>
                                   SubmittedRow(t, i)[c] = PyBool(FALSE)
                            /\ value = PyStr("x") =>
                                   SubmittedRow(t, i)[c] = PyBool(TRUE)
                            /\ value # None =>
                                   SubmittedRow(t, i)[c] \in
                                       {PyBool(TRUE), PyBool(FALSE)}

\* a row whose boolean column held the empty string was committed with
\* False in that column
C17_Witness ==
    \E t \in TableNames :
        /\ log[t].outcome = "committed"
        /\ BooleanRule(t, 2)
        /\ source[t].rows[1][2] = PyStr("")
        /\ dest[t] = <<<<PyInt(1), PyBool(FALSE)>>>>
        /\ stats.errors = <<>>

\* column c of table t is named by no rule of convert_value
NoRule(t, c) ==
    source[t].columns[c] \notin
        BOOLEAN_COLUMNS[t] \cup JSON_COLUMNS[t] \cup DATETIME_COLUMNS[t]

\* C18: in every row handed to executemany, a column whose source value is
\* None holds None, whichever rule its column falls under, and a column
\* no rule names holds the source value itself.
C18_NullAndUnlisted ==
    \A t \in TableNames :
        Converted(t) =>
            \A i \in 1..Len(source[t].rows) \ ErrorRows(t) :
                \A c \in 1..Len(source[t].columns) :
                    LET value == source[t].rows[i][c]
                    IN  /\ value = None => SubmittedRow(t, i)[c] = None
                        /\ NoRule(t, c) => SubmittedRow(t, i)[c] = value

\* a row with None in a JSON column and an int in a column no rule names
\* was committed with both as they were
C18_Witness ==
    \E t \in TableNames :
        /\ log[t].outcome = "committed"
        /\ JsonRule(t, 2) /\ NoRule(t, 1)
        /\ source[t].rows[1] = <<PyInt(1), None>>
        /\ dest[t] = <<<<PyInt(1), None>>>>

\* C19: in a run every table of the plan is attempted once and in turn:
\* stats.tables_migrated counts the tables processed, which are the first
\* table_index - 1 of the plan, all of them once the loop is over; a table
\* that reached the batch insert made exactly two calls on the
\* destination connection, one executemany and the commit or the
\* rollback, and a failed batch left one table-level error; and whenever
\* the next table or the sequence repair is about to start, the
\* connection has no open and no aborted transaction.
C19_SequentialNoRetry ==
    /\ pc \notin {"start", "suspend", "failed"} =>
          /\ stats.tables_migrated = table_index - 1
          /\ stats.tables_migrated =
                 Cardinality({t \in TableNames : Processed(t)})
    /\ pc \in {"repair", "restore", "summary", "done", "crashed"} =>
          stats.tables_migrated = Len(MIGRATION_ORDER)
    /\ \A t \in TableNames :
          /\ log[t].statements =
                 IF log[t].outcome \in {"committed", "batch_failed"} THEN 2 ELSE 0
          /\ log[t].outcome = "batch_failed" =>
                 /\ Cardinality(TableErrors(t)) = 1
                 /\ dest[t] = dest0[t]
    /\ (pc = "migrate" \/ (pc = "repair" /\ seq_index = 1)) =>
          pg_conn = NewConnection

\* the batch of the first table failed, the next table was committed and
\* the sequence repair is about to start on an idle connection
C19_Witness ==
    /\ pc = "repair"
    /\ seq_index = 1
    /\ log[MIGRATION_ORDER[1]].outcome = "batch_failed"
    /\ log[MIGRATION_ORDER[2]].outcome = "committed"
    /\ Len(dest[MIGRATION_ORDER[2]]) >= 1
    /\ pg_conn.status = "idle"

\* the sum of the counts stats.skipped_rows holds for the tables of S
RECURSIVE SumSkipped(_)
SumSkipped(S) ==
    IF S = {} THEN 0
    ELSE LET t == CHOOSE x \in S : TRUE
         IN  stats.skipped_rows[t] + SumSkipped(S \ {t})

\* the texts of the errors migrate_table records for a whole table
TableLevelTexts ==
    {"Table migration failed: DatabaseError",
     "Table migration failed: OperationalError",
     "Batch insert failed: ERROR DatatypeMismatch",
     "Batch insert failed: InFailedSqlTransaction"}

\* C20: the counts of stats.skipped_rows add up to the length of
\* stats.errors, the count of a table being the number of its entries; an
\* entry has row index 0 exactly when it is a table-level error and the
\* 1-based index of a source row that failed conversion otherwise; and a
\* table whose batch failed has one entry more than it has rows that
\* failed conversion, whatever the size of the batch.
C20_StatsInvariant ==
    /\ SumSkipped(DOMAIN stats.skipped_rows) = Len(stats.errors)
    /\ \A t \in TableNames :
          Cardinality(RowErrors(t) \cup TableErrors(t)) =
              IF t \in DOMAIN stats.skipped_rows THEN stats.skipped_rows[t] ELSE 0
    /\ \A i \in 1..Len(stats.errors) :
          LET t == stats.errors[i][1]
              row_num == stats.errors[i][2]
          IN  /\ t \in TableNames
              /\ row_num = 0 <=> stats.errors[i][3] \in TableLevelTexts
              /\ row_num # 0 => row_num \in FailingRows(t)
    /\ \A t \in TableNames :
          log[t].outcome = "batch_failed" =>
              stats.skipped_rows[t] = Cardinality(FailingRows(t)) + 1

\* a batch of several rows failed and its table counts one skipped row,
\* while another table counts a row that failed conversion
C20_Witness ==
    \E t, u \in TableNames :
        /\ t # u
        /\ log[t].outcome = "batch_failed"
        /\ Len(log[t].submitted) >= 2
        /\ stats.skipped_rows[t] = 1
        /\ RowErrors(u) # {}
        /\ Len(stats.errors) >= 2

\* once the loop of main is over, every table of the plan has been counted
AllTablesCounted ==
    pc \in {"repair", "restore", "summary", "done", "crashed"} =>
        stats.tables_migrated = Len(MIGRATION_ORDER)

\* a step of one run: the loop of main adds 1 to stats.tables_migrated for
\* the table it took, whatever became of it, and no other step changes the
\* counter; stats.total_rows changes only in a step that committed the
\* batch of its table, by the count that batch returned
CounterStep ==
    run' = run =>
        /\ stats'.tables_migrated =
               stats.tables_migrated +
                   (IF table_index' # table_index THEN 1 ELSE 0)
        /\ stats'.total_rows # stats.total_rows =>
               /\ pc = "migrate"
               /\ log'[MIGRATION_ORDER[table_index]].outcome = "committed"
               /\ stats'.total_rows =
                      stats.total_rows + log'[MIGRATION_ORDER[table_index]].ret
        /\ (/\ table_index' # table_index
            /\ log'[MIGRATION_ORDER[table_index]].outcome # "committed") =>
               stats'.total_rows = stats.total_rows

\* C21: stats.tables_migrated counts the tables attempted: a run that got
\* to the sequence repair has counted every table of the plan, the
\* missing, the empty and the failed ones included; and stats.total_rows
\* is changed only by a committed batch.
C21_CountsAttempts == []AllTablesCounted /\ [][CounterStep]_vars

\* the run reached the sequence repair after a missing table, a table whose
\* batch failed and a table that wrote rows: three tables counted, the
\* rows of the last one written
C21_Witness ==
    /\ pc = "repair"
    /\ log[MIGRATION_ORDER[1]].outcome = "not_found"
    /\ log[MIGRATION_ORDER[2]].outcome = "batch_failed"
    /\ log[MIGRATION_ORDER[3]].outcome = "committed"
    /\ stats.tables_migrated = Len(MIGRATION_ORDER)
    /\ stats.total_rows = log[MIGRATION_ORDER[3]].ret
    /\ stats.total_rows >= 1

\* the entries of stats.errors are in the order of occurrence: by table in
\* plan order, and within a table the row-level entries by ascending row
\* index, before the table-level entry
ErrorsOrdered ==
    \A i, j \in 1..Len(stats.errors) :
        i < j =>
            /\ PlanIndex(stats.errors[i][1]) <= PlanIndex(stats.errors[j][1])
            /\ stats.errors[i][1] = stats.errors[j][1] =>
                   /\ stats.errors[i][2] >= 1
                   /\ stats.errors[j][2] # 0 =>
                          stats.errors[i][2] < stats.errors[j][2]

\* a step of one run leaves the entries stats.errors holds where they are
\* and adds its own, those of the table it took, after them
ErrorsAppended ==
    run' = run =>
        /\ Len(stats'.errors) >= Len(stats.errors)
        /\ SubSeq(stats'.errors, 1, Len(stats.errors)) = stats.errors
        /\ \A k \in (Len(stats.errors) + 1)..Len(stats'.errors) :
               /\ pc = "migrate"
               /\ stats'.errors[k][1] = MIGRATION_ORDER[table_index]

\* C22: stats.errors only grows at its end during a run - no entry is
\* removed or moved; the entries of a table earlier in the plan come
\* before those of a later table; within a table the row-level entries
\* come in ascending row index and before the table-level entry.
C22_ErrorsAppendOnly == []ErrorsOrdered /\ [][ErrorsAppended]_vars

\* the list holds the batch failure of the first table, then a row-level
\* error of the last table, then the batch failure of that table
C22_Witness ==
    /\ Len(stats.errors) = 3
    /\ stats.errors[1][1] = MIGRATION_ORDER[1]
    /\ stats.errors[1][2] = 0
    /\ stats.errors[2][1] = MIGRATION_ORDER[3]
    /\ stats.errors[2][2] >= 1
    /\ stats.errors[3][1] = MIGRATION_ORDER[3]
    /\ stats.errors[3][2] = 0
    /\ log[MIGRATION_ORDER[3]].outcome = "batch_failed"

====
